---- MODULE Spec2Model ----
\* Model of hassio/addons/utils.py: the security rating, the repository
\* hash, the installed guard and the data removal of an add-on.
EXTENDS Integers, Sequences, FiniteSets, TLC

\* ---------------------------------------------------------------------
\* Bounds of the explored inputs
\* ---------------------------------------------------------------------
\* largest number of privileges an explored add-on requests
MaxPriv == 2
\* longest run of one repeated character at the start of a directory name
MaxRun == 9

\* ---------------------------------------------------------------------
\* Names imported from ..const and ..exceptions
\* ---------------------------------------------------------------------
SECURITY_DISABLE == "disable"
SECURITY_PROFILE == "profile"
SECURITY_DEFAULT == "default"
ROLE_MANAGER == "manager"
ROLE_ADMIN == "admin"
ROLE_DEFAULT == "default"
PRIVILEGED_NET_ADMIN == "NET_ADMIN"
PRIVILEGED_SYS_ADMIN == "SYS_ADMIN"
PRIVILEGED_SYS_RAWIO == "SYS_RAWIO"
PRIVILEGED_SYS_PTRACE == "SYS_PTRACE"
PRIVILEGED_SYS_MODULE == "SYS_MODULE"
PRIVILEGED_DAC_READ_SEARCH == "DAC_READ_SEARCH"
AddonsNotSupportedError == "AddonsNotSupportedError"

\* Python values that cross the model: None, bytes and str
None == [type |-> "NoneType"]
Bytes(s) == [type |-> "bytes", data |-> s]
Str(s) == [type |-> "str", data |-> s]

Min(a, b) == IF a < b THEN a ELSE b
Max(a, b) == IF a > b THEN a ELSE b

\* ---------------------------------------------------------------------
\* rating_security
\* ---------------------------------------------------------------------
\* the tuple the any() of the privileged block iterates over
RatedPrivileges ==
    {PRIVILEGED_NET_ADMIN, PRIVILEGED_SYS_ADMIN, PRIVILEGED_SYS_RAWIO,
     PRIVILEGED_SYS_PTRACE, PRIVILEGED_SYS_MODULE, PRIVILEGED_DAC_READ_SEARCH}

\* # AppArmor
AppArmorRatingElse(addon, rating) ==
    IF addon.apparmor = SECURITY_DISABLE THEN rating - 1 ELSE rating + 1
AppArmorRating(addon, rating) ==
    IF addon.apparmor = SECURITY_DISABLE THEN rating - 1
    ELSE IF addon.apparmor = SECURITY_PROFILE THEN rating + 1
    ELSE rating

\* # Home Assistant Login
AuthApiRating(addon, rating) ==
    IF addon.access_auth_api THEN rating + 1 ELSE rating

\* # Privileged options
PrivilegedRatingPerPrivilege(addon, rating) ==
    rating - Cardinality(addon.privileged \cap RatedPrivileges)
PrivilegedRating(addon, rating) ==
    IF \E privilege \in RatedPrivileges : privilege \in addon.privileged
    THEN rating - 1 ELSE rating

\* # API Hass.io role
RoleRating(addon, rating) ==
    IF addon.hassio_role = ROLE_MANAGER THEN rating - 1
    ELSE IF addon.hassio_role = ROLE_ADMIN THEN rating - 2
    ELSE rating

\* # Not secure Networking
HostNetworkRating(addon, rating) ==
    IF addon.host_network THEN rating - 1 ELSE rating

\* # Insecure PID namespace
HostPidRating(addon, rating) ==
    IF addon.host_pid THEN rating - 2 ELSE rating

\* # Full Access
FullAccessRating(addon, rating) ==
    IF addon.with_full_access THEN rating - 2 ELSE rating

\* # Docker Access
DockerRatingPenalty(addon, rating) ==
    IF addon.access_docker_api THEN rating - 1 ELSE rating
DockerRating(addon, rating) ==
    IF addon.access_docker_api THEN 1 ELSE rating

\* return max(min(6, rating), 1)
ClampRatingNoFloor(rating) == Min(6, rating)
ClampRating(rating) == Max(Min(6, rating), 1)

RatingSecurity(addon) ==
    LET r0 == 5
        r1 == AppArmorRating(addon, r0)
        r2 == AuthApiRating(addon, r1)
        r3 == PrivilegedRating(addon, r2)
        r4 == RoleRating(addon, r3)
        r5 == HostNetworkRating(addon, r4)
        r6 == HostPidRating(addon, r5)
        r7 == FullAccessRating(addon, r6)
        r8 == DockerRating(addon, r7)
    IN ClampRating(r8)

\* ---------------------------------------------------------------------
\* get_hash_from_repository and extract_hash_from_path
\* ---------------------------------------------------------------------
\* A str is a sequence of one-character strings.  CharCodes pairs each
\* character of the explored names with the byte str.encode() gives it.
CharCodes ==
    {<<"-", 45>>, <<"/", 47>>,
     <<"0", 48>>, <<"1", 49>>, <<"2", 50>>, <<"3", 51>>, <<"4", 52>>,
     <<"5", 53>>, <<"6", 54>>, <<"7", 55>>, <<"8", 56>>, <<"9", 57>>,
     <<"A", 65>>, <<"F", 70>>, <<"G", 71>>,
     <<"a", 97>>, <<"b", 98>>, <<"c", 99>>, <<"d", 100>>, <<"e", 101>>, <<"f", 102>>,
     <<"g", 103>>, <<"t", 116>>, <<"z", 122>>}
Ord(c) == (CHOOSE p \in CharCodes : p[1] = c)[2]
Chr(n) == (CHOOSE p \in CharCodes : p[2] = n)[1]
\* str.lower()
LowerChar(c) == IF Ord(c) \in 65..90 THEN Chr(Ord(c) + 32) ELSE c
StrLower(s) == [i \in 1..Len(s) |-> LowerChar(s[i])]
\* str.encode()
StrEncode(s) == [i \in 1..Len(s) |-> Ord(s[i])]

\* hashlib.sha1 over 32-bit words kept as <<high 16 bits, low 16 bits>>.
NibbleBit(a, k) == (a \div (2 ^ k)) % 2
XorT == [a \in 0..15 |-> [b \in 0..15 |->
           ((NibbleBit(a,0) + NibbleBit(b,0)) % 2) + 2 * ((NibbleBit(a,1) + NibbleBit(b,1)) % 2)
           + 4 * ((NibbleBit(a,2) + NibbleBit(b,2)) % 2) + 8 * ((NibbleBit(a,3) + NibbleBit(b,3)) % 2)]]
AndT == [a \in 0..15 |-> [b \in 0..15 |->
           (NibbleBit(a,0) * NibbleBit(b,0)) + 2 * (NibbleBit(a,1) * NibbleBit(b,1))
           + 4 * (NibbleBit(a,2) * NibbleBit(b,2)) + 8 * (NibbleBit(a,3) * NibbleBit(b,3))]]
Nib(x, k) == (x \div (16 ^ k)) % 16
Xor16(a, b) == XorT[Nib(a,0)][Nib(b,0)] + 16 * XorT[Nib(a,1)][Nib(b,1)]
               + 256 * XorT[Nib(a,2)][Nib(b,2)] + 4096 * XorT[Nib(a,3)][Nib(b,3)]
And16(a, b) == AndT[Nib(a,0)][Nib(b,0)] + 16 * AndT[Nib(a,1)][Nib(b,1)]
               + 256 * AndT[Nib(a,2)][Nib(b,2)] + 4096 * AndT[Nib(a,3)][Nib(b,3)]
Xor32(a, b) == <<Xor16(a[1], b[1]), Xor16(a[2], b[2])>>
And32(a, b) == <<And16(a[1], b[1]), And16(a[2], b[2])>>
Not32(a) == <<65535 - a[1], 65535 - a[2]>>
Add32(a, b) == LET lo == a[2] + b[2]
                   hi == a[1] + b[1] + (lo \div 65536)
               IN <<hi % 65536, lo % 65536>>
RotL(w, n) == IF n >= 16
              THEN <<((w[2] * 2^(n-16)) % 65536) + (w[1] \div 2^(32-n)),
                     ((w[1] * 2^(n-16)) % 65536) + (w[2] \div 2^(32-n))>>
              ELSE <<((w[1] * 2^n) % 65536) + (w[2] \div 2^(16-n)),
                     ((w[2] * 2^n) % 65536) + (w[1] \div 2^(16-n))>>

Zeros(n) == [i \in 1..n |-> 0]

Sha1Pad(msg) ==
    LET L == Len(msg)
        z == (119 - L) % 64
        bits == L * 8
    IN msg \o <<128>> \o Zeros(z) \o <<0, 0, 0, 0>>
       \o <<(bits \div 16777216) % 256, (bits \div 65536) % 256, (bits \div 256) % 256, bits % 256>>

BlockWords(bytes, k) ==
    [i \in 1..16 |-> LET o == 64 * k + 4 * (i - 1)
                     IN <<bytes[o+1] * 256 + bytes[o+2], bytes[o+3] * 256 + bytes[o+4]>>]

\* The 64 schedule extensions and the 80 rounds are evaluated in halves,
\* each half computed before the next one starts.
RECURSIVE Schedule(_, _)
Schedule(w, n) ==
    IF n = 0 THEN w
    ELSE IF n = 1
    THEN LET t == Len(w) + 1
         IN Append(w, RotL(Xor32(Xor32(w[t-3], w[t-8]), Xor32(w[t-14], w[t-16])), 1))
    ELSE LET half == Schedule(w, n \div 2)
         IN IF Len(half) = 0 THEN half ELSE Schedule(half, n - (n \div 2))

Sha1F(t, b, c, d) ==
    IF t < 20 THEN Xor32(And32(b, c), And32(Not32(b), d))
    ELSE IF t < 40 THEN Xor32(Xor32(b, c), d)
    ELSE IF t < 60 THEN Xor32(Xor32(And32(b, c), And32(b, d)), And32(c, d))
    ELSE Xor32(Xor32(b, c), d)
Sha1K(t) ==
    IF t < 20 THEN <<23170, 31129>>
    ELSE IF t < 40 THEN <<28377, 60321>>
    ELSE IF t < 60 THEN <<36635, 48348>>
    ELSE <<51810, 49622>>

RECURSIVE Rounds(_, _, _, _)
Rounds(w, lo, hi, s) ==
    IF hi = lo THEN s
    ELSE IF hi = lo + 1
    THEN LET temp == Add32(Add32(Add32(Add32(RotL(s[1], 5), Sha1F(lo, s[2], s[3], s[4])), s[5]),
                                 Sha1K(lo)), w[lo+1])
         IN <<temp, s[1], RotL(s[2], 30), s[3], s[4]>>
    ELSE LET mid == (lo + hi) \div 2
             first == Rounds(w, lo, mid, s)
         IN IF Len(first) = 0 THEN first ELSE Rounds(w, mid, hi, first)

Compress(h, w) ==
    LET s == Rounds(w, 0, 80, h)
    IN [i \in 1..5 |-> Add32(h[i], s[i])]

RECURSIVE Blocks(_, _, _)
Blocks(bytes, k, h) ==
    IF 64 * k >= Len(bytes) THEN h
    ELSE Blocks(bytes, k + 1, Compress(h, Schedule(BlockWords(bytes, k), 64)))

Sha1(msg) ==
    Blocks(Sha1Pad(msg), 0,
           <<(<<26437, 8961>>), (<<61389, 43913>>), (<<39098, 56574>>), (<<4146, 21622>>), (<<50130, 57840>>)>>)

HexDigits == <<"0","1","2","3","4","5","6","7","8","9","a","b","c","d","e","f">>
Hex16(x) == <<HexDigits[Nib(x,3) + 1], HexDigits[Nib(x,2) + 1], HexDigits[Nib(x,1) + 1], HexDigits[Nib(x,0) + 1]>>
RECURSIVE HexWords(_)
HexWords(ws) == IF ws = <<>> THEN <<>> ELSE Hex16(Head(ws)[1]) \o Hex16(Head(ws)[2]) \o HexWords(Tail(ws))
HexDigest(d) == HexWords(d)


\* hashlib.sha1(key).hexdigest()[:8]
GetHashFromRepository(name) ==
    LET key == StrEncode(StrLower(name))
    IN SubSeq(HexDigest(Sha1(key)), 1, 8)

\* RE_SHA1 = re.compile(r"[a-f0-9]{8}"), used with Pattern.match: the
\* pattern has to match at the start of the string, not all of it.
HexLower == {"0","1","2","3","4","5","6","7","8","9","a","b","c","d","e","f"}
HexUpper == {"0","1","2","3","4","5","6","7","8","9","A","B","C","D","E","F"}
RE_SHA1_matchUpper(s) == Len(s) >= 8 /\ \A i \in 1..8 : s[i] \in HexUpper
RE_SHA1_match(s) == Len(s) >= 8 /\ \A i \in 1..8 : s[i] \in HexLower

\* a Path is the sequence of its parts; path.parts[-1] is the last one
ExtractHashFromPath(path) ==
    LET repository_dir == path[Len(path)]
    IN IF ~RE_SHA1_match(repository_dir)
       THEN GetHashFromRepository(repository_dir)
       ELSE repository_dir

\* ---------------------------------------------------------------------
\* Explored inputs
\* ---------------------------------------------------------------------
\* a value no branch of rating_security names
Unlisted == "unlisted"
ApparmorValues == {SECURITY_DISABLE, SECURITY_DEFAULT, SECURITY_PROFILE, Unlisted}
RoleValues == {ROLE_DEFAULT, ROLE_MANAGER, ROLE_ADMIN, Unlisted}
Privileges == RatedPrivileges \cup {"SYS_NICE"}
PrivilegeSets == {ps \in SUBSET Privileges : Cardinality(ps) <= MaxPriv}
Slugs == {"local_ssh", "core_mosquitto"}

RatedAddons ==
    [apparmor : ApparmorValues, access_auth_api : BOOLEAN, privileged : PrivilegeSets,
     hassio_role : RoleValues, host_network : BOOLEAN, host_pid : BOOLEAN,
     with_full_access : BOOLEAN, access_docker_api : BOOLEAN,
     is_installed : {TRUE}, slug : {"local_ssh"}]
GuardedAddons ==
    [apparmor : {SECURITY_DEFAULT}, access_auth_api : {FALSE}, privileged : {{}},
     hassio_role : {ROLE_DEFAULT}, host_network : {FALSE}, host_pid : {FALSE},
     with_full_access : {FALSE}, access_docker_api : {FALSE},
     is_installed : BOOLEAN, slug : Slugs]

Repeat(c, n) == [i \in 1..n |-> c]
RunChars == {"a", "F", "g"}
Suffixes == {<<>>, <<"z">>, <<"-", "A">>, <<"0", "f">>}
DirNames ==
    {Repeat(c, n) \o suf : c \in RunChars, n \in 0..MaxRun, suf \in Suffixes} \ {<<>>}
Parents == {<<>>, << <<"/">>, <<"d", "a", "t", "a">> >>}
Paths == {parent \o <<dir>> : parent \in Parents, dir \in DirNames}

MethodArgs == {<<>>, <<"stdin">>, <<1, 2>>}
MethodKwargs == {{}, {<<"force", TRUE>>}}
MethodValues == {"None", "running"}
MethodErrors == {"AddonsError", AddonsNotSupportedError}

Folders == {"/data/addons/data/local_ssh", "/data/addons/data/core_mosquitto"}
SpawnErrors == {"[Errno 2] No such file or directory: 'rm'",
                "[Errno 11] Resource temporarily unavailable"}
ReturnCodes == {0, 1}
StdoutTexts == {""}
StderrTexts == {"", "rm: cannot remove 'options.json': Permission denied"}

\* ---------------------------------------------------------------------
\* State
\* ---------------------------------------------------------------------
VARIABLES
    pc,       \* "idle", "await_method", "communicate" or "done"
    op,       \* the function that was called
    arg,      \* what it was called with
    result,   \* how the call ended: returned a value or raised
    log,      \* records handed to _LOGGER, oldest first
    calls,    \* the calls the function made to its callees, oldest first
    awaited,  \* how the awaited method ended
    proc      \* the rm process

vars == <<pc, op, arg, result, log, calls, awaited, proc>>

Pending == [kind |-> "none"]
Return(v) == [kind |-> "return", value |-> v]
Raise(e) == [kind |-> "raise", exc |-> e]
LogError(msg, args) == [level |-> "error", msg |-> msg, args |-> args]

Init ==
    /\ pc = "idle"
    /\ op = "none"
    /\ arg = None
    /\ result = Pending
    /\ log = <<>>
    /\ calls = <<>>
    /\ awaited = Pending
    /\ proc = [state |-> "none"]

\* rating_security(addon)
CallRatingSecurity(addon) ==
    /\ pc = "idle"
    /\ op' = "rating_security"
    /\ arg' = addon
    /\ result' = Return(RatingSecurity(addon))
    /\ pc' = "done"
    /\ UNCHANGED <<log, calls, awaited, proc>>

\* get_hash_from_repository(name)
CallGetHashFromRepository(name) ==
    /\ pc = "idle"
    /\ op' = "get_hash_from_repository"
    /\ arg' = name
    /\ result' = Return(GetHashFromRepository(name))
    /\ pc' = "done"
    /\ UNCHANGED <<log, calls, awaited, proc>>

\* extract_hash_from_path(path)
CallExtractHashFromPath(path) ==
    /\ pc = "idle"
    /\ op' = "extract_hash_from_path"
    /\ arg' = path
    /\ result' = Return(ExtractHashFromPath(path))
    /\ calls' = IF ~RE_SHA1_match(path[Len(path)])
                THEN <<[fn |-> "get_hash_from_repository", name |-> path[Len(path)]]>>
                ELSE <<>>
    /\ pc' = "done"
    /\ UNCHANGED <<log, awaited, proc>>

\* check_installed(method)(addon, *args, **kwargs), up to the await
WrapCheckReturnsFalse(addon, args, kwargs) ==
    /\ pc = "idle"
    /\ op' = "wrap_check"
    /\ arg' = [addon |-> addon, args |-> args, kwargs |-> kwargs]
    /\ IF ~addon.is_installed
       THEN /\ log' = Append(log, LogError("Addon %s is not installed", <<addon.slug>>))
            /\ result' = Return("False")
            /\ pc' = "done"
            /\ UNCHANGED calls
       ELSE /\ calls' = Append(calls, [fn |-> "method", addon |-> addon,
                                       args |-> args, kwargs |-> kwargs])
            /\ pc' = "await_method"
            /\ UNCHANGED <<log, result>>
    /\ UNCHANGED <<awaited, proc>>
WrapCheck(addon, args, kwargs) ==
    /\ pc = "idle"
    /\ op' = "wrap_check"
    /\ arg' = [addon |-> addon, args |-> args, kwargs |-> kwargs]
    /\ IF ~addon.is_installed
       THEN /\ log' = Append(log, LogError("Addon %s is not installed", <<addon.slug>>))
            /\ result' = Raise(AddonsNotSupportedError)
            /\ pc' = "done"
            /\ UNCHANGED calls
       ELSE /\ calls' = Append(calls, [fn |-> "method", addon |-> addon,
                                       args |-> args, kwargs |-> kwargs])
            /\ pc' = "await_method"
            /\ UNCHANGED <<log, result>>
    /\ UNCHANGED <<awaited, proc>>

\* return await method(addon, *args, **kwargs): the method returns
MethodReturns(value) ==
    /\ pc = "await_method"
    /\ awaited' = Return(value)
    /\ result' = Return(value)
    /\ pc' = "done"
    /\ UNCHANGED <<op, arg, log, calls, proc>>

\* return await method(addon, *args, **kwargs): the method raises
MethodRaisesSwallowed(exc) ==
    /\ pc = "await_method"
    /\ awaited' = Raise(exc)
    /\ result' = Return("False")
    /\ pc' = "done"
    /\ UNCHANGED <<op, arg, log, calls, proc>>
MethodRaises(exc) ==
    /\ pc = "await_method"
    /\ awaited' = Raise(exc)
    /\ result' = Raise(exc)
    /\ pc' = "done"
    /\ UNCHANGED <<op, arg, log, calls, proc>>

\* asyncio.create_subprocess_exec("rm", "-rf", str(folder), stdout=DEVNULL):
\* stdout goes to DEVNULL, stderr is not passed and stays the parent's
SpawnRm(folder) ==
    [state |-> "running", argv |-> <<"rm", "-rf", folder>>,
     stdout |-> "DEVNULL", stderr |-> "INHERIT"]

\* proc.communicate() hands back the data of the streams that are pipes
Communicate(p, out, err) ==
    <<IF p.stdout = "PIPE" THEN Bytes(out) ELSE None,
      IF p.stderr = "PIPE" THEN Bytes(err) ELSE None>>

\* if proc.returncode == 0
ReturnCodeOkInverted(returncode) == returncode # 0
ReturnCodeOk(returncode) == returncode = 0

\* remove_data(folder), up to the await of communicate()
RemoveData(folder) ==
    /\ pc = "idle"
    /\ op' = "remove_data"
    /\ arg' = folder
    /\ \/ \E err \in SpawnErrors :
            LET error_msg == Str(err)
            IN /\ proc' = [state |-> "failed", error |-> err]
               /\ log' = Append(log, LogError("Can't remove Add-on Data: %s", <<error_msg>>))
               /\ result' = Return(None)
               /\ pc' = "done"
       \/ /\ proc' = SpawnRm(folder)
          /\ pc' = "communicate"
          /\ UNCHANGED <<log, result>>
    /\ UNCHANGED <<calls, awaited>>

\* the rm process ends and communicate() returns
ProcessExits(returncode, out, err) ==
    /\ pc = "communicate"
    /\ proc' = [proc EXCEPT !.state = "exited"] @@
               [returncode |-> returncode, out |-> out, err |-> err]
    /\ LET error_msg == Communicate(proc, out, err)[2]
       IN IF ReturnCodeOk(returncode)
          THEN UNCHANGED log
          ELSE log' = Append(log, LogError("Can't remove Add-on Data: %s", <<error_msg>>))
    /\ result' = Return(None)
    /\ pc' = "done"
    /\ UNCHANGED <<op, arg, calls, awaited>>

Next ==
    \/ \E addon \in RatedAddons : CallRatingSecurity(addon)
    \/ \E name \in DirNames : CallGetHashFromRepository(name)
    \/ \E path \in Paths : CallExtractHashFromPath(path)
    \/ \E addon \in GuardedAddons, args \in MethodArgs, kwargs \in MethodKwargs :
          WrapCheck(addon, args, kwargs)
    \/ \E value \in MethodValues : MethodReturns(value)
    \/ \E exc \in MethodErrors : MethodRaises(exc)
    \/ \E folder \in Folders : RemoveData(folder)
    \/ \E returncode \in ReturnCodes, out \in StdoutTexts, err \in StderrTexts :
          ProcessExits(returncode, out, err)

Spec == Init /\ [][Next]_vars

\* ---------------------------------------------------------------------
\* Properties
\* ---------------------------------------------------------------------
Done(fn) == pc = "done" /\ op = fn

DocumentedApparmor == {SECURITY_DISABLE, SECURITY_DEFAULT, SECURITY_PROFILE}
DocumentedRoles == {ROLE_DEFAULT, ROLE_MANAGER, ROLE_ADMIN}
WellFormed(addon) ==
    addon.apparmor \in DocumentedApparmor /\ addon.hassio_role \in DocumentedRoles

\* the score as the sum of the documented adjustments
DocumentedTotal(addon) ==
    5 + (IF addon.apparmor = "disable" THEN -1 ELSE IF addon.apparmor = "profile" THEN 1 ELSE 0)
      + (IF addon.access_auth_api THEN 1 ELSE 0)
      + (IF addon.privileged \cap {"NET_ADMIN", "SYS_ADMIN", "SYS_RAWIO", "SYS_PTRACE",
                                   "SYS_MODULE", "DAC_READ_SEARCH"} # {} THEN -1 ELSE 0)
      + (IF addon.hassio_role = "manager" THEN -1 ELSE IF addon.hassio_role = "admin" THEN -2 ELSE 0)
      + (IF addon.host_network THEN -1 ELSE 0)
      + (IF addon.host_pid THEN -2 ELSE 0)
      + (IF addon.with_full_access THEN -2 ELSE 0)
DocumentedRating(addon) ==
    IF addon.access_docker_api THEN 1
    ELSE LET T == DocumentedTotal(addon)
         IN IF T > 6 THEN 6 ELSE IF T < 1 THEN 1 ELSE T

\* C1: rating_security returns an integer between 1 and 6 for every
\* add-on, whatever its fields.
C1_RatingInRange ==
    Done("rating_security") =>
        /\ result.kind = "return"
        /\ result.value \in 1..6
\* an add-on whose adjustments sum below 1 was rated
C1_Witness ==
    /\ Done("rating_security")
    /\ ~arg.access_docker_api
    /\ DocumentedTotal(arg) < 1
    /\ result.value = 1

\* C2: with Docker API access the rating is exactly 1, whatever the
\* other fields are.
C2_DockerAccessRatesOne ==
    (Done("rating_security") /\ arg.access_docker_api) => result = Return(1)
\* Docker API access together with the two fields that raise the score
C2_Witness ==
    /\ Done("rating_security")
    /\ arg.access_docker_api
    /\ arg.apparmor = SECURITY_PROFILE
    /\ arg.access_auth_api
    /\ DocumentedTotal(arg) = 7
    /\ result.value = 1

\* C3: without Docker API access the rating is the documented sum of
\* adjustments, started at 5 and clamped to 1..6, the privilege penalty
\* counted once.
C3_RatingIsClampedSum ==
    (Done("rating_security") /\ ~arg.access_docker_api /\ WellFormed(arg)) =>
        result = Return(Max(Min(6, DocumentedTotal(arg)), 1))
\* two rated privileges at once cost a single point
C3_Witness ==
    /\ Done("rating_security")
    /\ ~arg.access_docker_api
    /\ WellFormed(arg)
    /\ Cardinality(arg.privileged \cap RatedPrivileges) = 2
    /\ DocumentedTotal(arg) = 4
    /\ result.value = 4

C5_InstalledPassesThrough ==
    (op = "wrap_check" /\ arg.addon.is_installed) =>
        /\ calls = <<[fn |-> "method", addon |-> arg.addon,
                      args |-> arg.args, kwargs |-> arg.kwargs]>>
        /\ log = <<>>
        /\ pc \in {"await_method", "done"}
        /\ (pc = "await_method" => result = Pending)
        /\ (pc = "done" => awaited # Pending /\ result = awaited)
\* the method raised and the call for an installed add-on has ended
C5_Witness ==
    /\ Done("wrap_check")
    /\ arg.addon.is_installed
    /\ arg.kwargs # {}
    /\ awaited.kind = "raise"

\* C6: whatever happens to the rm process, remove_data returns None and
\* never raises; it logs nothing when rm exits with 0 and one error
\* record when rm cannot be started or exits with another status.
C6_RemoveDataNeverRaises ==
    /\ (op = "remove_data" => result.kind # "raise")
    /\ (Done("remove_data") =>
          /\ result = Return(None)
          /\ proc.state \in {"failed", "exited"}
          /\ ((proc.state = "exited" /\ proc.returncode = 0) => log = <<>>)
          /\ ((proc.state = "failed" \/ (proc.state = "exited" /\ proc.returncode # 0)) =>
                 (Len(log) = 1 /\ log[1].level = "error")))
\* rm exited with a nonzero status and remove_data has returned
C6_Witness ==
    /\ Done("remove_data")
    /\ proc.state = "exited"
    /\ proc.returncode # 0
    /\ Len(log) = 1

IsEightLowerHex(s) == Len(s) = 8 /\ \A i \in 1..8 : s[i] \in HexLower

\* C7: extract_hash_from_path returns the last part unchanged only when
\* it is exactly 8 characters of [a-f0-9]; every other last part goes
\* through get_hash_from_repository, so the result is always 8
\* characters of [a-f0-9].
C7_OnlyEightHexPassesUnchanged ==
    Done("extract_hash_from_path") =>
        LET repository_dir == arg[Len(arg)]
        IN /\ IF IsEightLowerHex(repository_dir)
              THEN calls = <<>> /\ result = Return(repository_dir)
              ELSE /\ calls = <<[fn |-> "get_hash_from_repository", name |-> repository_dir]>>
                   /\ result = Return(GetHashFromRepository(repository_dir))
           /\ IsEightLowerHex(result.value)

\* C8: extract_hash_from_path applied to a path that ends in its own
\* result returns that result again.
C8_ExtractIsIdempotent ==
    Done("extract_hash_from_path") =>
        \A parent \in Parents :
            ExtractHashFromPath(parent \o <<result.value>>) = result.value
\* a directory name that was hashed
C8_Witness ==
    /\ Done("extract_hash_from_path")
    /\ calls # <<>>
    /\ result.value # arg[Len(arg)]
    /\ \E i \in 1..Len(result.value) : result.value[i] \in {"a", "b", "c", "d", "e", "f"}

\* C9: when rm exits with a nonzero status, the error record carries
\* what rm wrote to its standard error.
C9_LogCarriesStderr ==
    (Done("remove_data") /\ proc.state = "exited" /\ proc.returncode # 0) =>
        /\ Len(log) = 1
        /\ log[1].args = <<Bytes(proc.err)>>

Normalised(addon) ==
    [addon EXCEPT !.apparmor = IF @ \in DocumentedApparmor THEN @ ELSE SECURITY_DEFAULT,
                  !.hassio_role = IF @ \in DocumentedRoles THEN @ ELSE ROLE_DEFAULT]

====
